---- MODULE Spec2Model ----
(***************************************************************************)
(* Gadget layer of the rollup: the Proposal-Block circuit                  *)
(* (rollup/gadgets/proposal_block), the leaf-list Merkle root              *)
(* (merkle_tree/gadgets) and the Merge-and-Purge public-input wire format  *)
(* (transaction/circuits).                                                 *)
(*                                                                         *)
(* A circuit is a set of constraints over a witness.  The model evaluates  *)
(* the constraints that verify_valid_proposal_block adds, slot by slot,    *)
(* on the values the witness gives to the targets: `satisfied` is FALSE as *)
(* soon as one constraint does not hold (proof generation fails).          *)
(*                                                                         *)
(* A digest (HashOut) is a tuple of 4 field elements.  Every digest of the *)
(* model has the shape <<v, 0, 0, 0>>, as the digests of the unit tests.   *)
(***************************************************************************)
EXTENDS Integers, Sequences, FiniteSets, TLC

\* ------------------------------------------------------------------ bounds
MaxRoot == 1        \* world-state roots are Digest(0) .. Digest(MaxRoot)
MaxValue == 2       \* user asset roots are Digest(0) .. Digest(MaxValue)
MaxDiff == 2        \* diff roots are Digest(1) .. Digest(MaxDiff)

MaxLogTxs == 2     \* batch capacities are 1, 2, .. 2^MaxLogTxs
MaxReal == 2       \* at most MaxReal accounts submit a transaction
MaxAccount == 2    \* account addresses are Digest(1) .. Digest(MaxAccount)
MaxLeaves == 5     \* leaf lists have 0 .. MaxLeaves leaves
MaxLevels == 2     \* Merkle paths have 1 .. MaxLevels levels (N_LEVELS)
MaxTxList == 3     \* make_address_list gets lists of 0 .. MaxTxList entries

\* batch capacity of test_proposal_block: 2usize.pow(N_LOG_TXS), N_LOG_TXS = 1
N_TXS == 2
\* the number of merge proofs of one transaction
N_MERGES == 2

\* ----------------------------------------------------------------- digests
Digest(v) == <<v, 0, 0, 0>>

default_hash == Digest(0)

Roots == {Digest(v) : v \in 0..MaxRoot}
Values == {Digest(v) : v \in 0..MaxValue}
Diffs == {Digest(v) : v \in 1..MaxDiff}

Pair(a, b) == ((a + b) * (a + b + 1)) \div 2 + b

\* two-to-one compression: injective, and never equal to one of its arguments
poseidon_two_to_one(left, right) == Digest(Pair(left[1], right[1]) + 1)

\* ------------------------------------------- merkle_tree/gadgets/mod.rs
Panic == <<>>

\* an odd layer padded with the default hash instead of its last element
PushLastIfOdd_DefaultPad(layer) ==
    IF Len(layer) % 2 = 1 THEN Append(layer, default_hash) ELSE layer

PushLastIfOdd(layer) ==
    IF Len(layer) % 2 = 1 THEN Append(layer, layer[Len(layer)]) ELSE layer

PairwiseHash(layer) ==
    [idx \in 1..(Len(layer) \div 2) |->
        poseidon_two_to_one(layer[2 * idx - 1], layer[2 * idx])]

RECURSIVE ReduceLayers(_)
ReduceLayers(layer) ==
    IF Len(layer) > 1
    THEN ReduceLayers(PairwiseHash(PushLastIfOdd(layer)))
    ELSE layer[1]

get_merkle_root_target_from_leaves(leaves_t) ==
    IF Len(leaves_t) = 0 THEN Panic ELSE ReduceLayers(leaves_t)

RECURSIVE Pow2(_)
Pow2(e) == IF e = 0 THEN 1 ELSE 2 * Pow2(e - 1)

\* builder.range_check(index, N_LEVELS)
range_check(x, n_log) == x < Pow2(n_log)

\* builder.split_le(index_t, n): the n low bits, least significant first
split_le(x, num_bits) == [j \in 1..num_bits |-> (x \div Pow2(j - 1)) % 2]

\* lr_bit = 1 puts the current node on the right
conditionally_reverse(current, sibling, lr_bit) ==
    IF lr_bit = 1 THEN <<sibling, current>> ELSE <<current, sibling>>

RECURSIVE FoldPath(_, _, _, _)
FoldPath(root, siblings, bits, j) ==
    IF j > Len(siblings) THEN root
    ELSE LET lr == conditionally_reverse(root, siblings[j], bits[j])
         IN  FoldPath(poseidon_two_to_one(lr[1], lr[2]), siblings, bits, j + 1)

\* the index bits taken most significant first
get_merkle_root_target_MsbFirst(index_t, value_t, siblings_t) ==
    LET n == Len(siblings_t)
        le == split_le(index_t, n)
    IN  FoldPath(value_t, siblings_t, [j \in 1..n |-> le[n + 1 - j]], 1)

\* the current node always on the left
get_merkle_root_target_NoSwap(index_t, value_t, siblings_t) ==
    FoldPath(value_t, siblings_t, [j \in 1..Len(siblings_t) |-> 0], 1)

get_merkle_root_target(index_t, value_t, siblings_t) ==
    FoldPath(value_t, siblings_t, split_le(index_t, Len(siblings_t)), 1)

\* merkle_tree::tree::get_merkle_root, off circuit
RECURSIVE get_merkle_root(_, _, _)
get_merkle_root(index, value, siblings) ==
    IF Len(siblings) = 0 THEN value
    ELSE get_merkle_root(index \div 2,
            IF index % 2 = 1
            THEN poseidon_two_to_one(siblings[1], value)
            ELSE poseidon_two_to_one(value, siblings[1]),
            Tail(siblings))

\* the dense tree of 2^depth leaves, the missing leaves being the default
PaddedLeaves(leaf_list, depth) ==
    [i \in 1..Pow2(depth) |->
        IF i <= Len(leaf_list) THEN leaf_list[i] ELSE default_hash]

RECURSIVE DenseNode(_, _, _)
DenseNode(padded, h, i) ==
    IF h = 0 THEN padded[i + 1]
    ELSE poseidon_two_to_one(DenseNode(padded, h - 1, 2 * i),
                             DenseNode(padded, h - 1, 2 * i + 1))

\* merkle_tree::tree::get_merkle_proof, off circuit
get_merkle_proof(leaf_list, index, depth) ==
    LET padded == PaddedLeaves(leaf_list, depth)
        position(j) == index \div Pow2(j - 1)
        neighbour(j) == IF position(j) % 2 = 1 THEN position(j) - 1
                        ELSE position(j) + 1
    IN  [index    |-> index,
         value    |-> padded[index + 1],
         siblings |-> [j \in 1..depth |-> DenseNode(padded, j - 1, neighbour(j))],
         root     |-> DenseNode(padded, depth, 0)]

\* ------------------------------------------- transaction/circuits/mod.rs
\* make_user_proof_circuit: the public inputs in the order registered
register_public_inputs(t) ==
    t.merge_old_user_asset_root \o t.merge_new_user_asset_root
        \o t.purge_new_user_asset_root \o t.purge_diff_root
        \o t.purge_sender_address \o t.tx_hash

\* MergeAndPurgeTransitionCircuit::prove: the record read off the proof
prove_public_inputs(pi) ==
    [sender_address         |-> SubSeq(pi, 17, 20),
     old_user_asset_root    |-> SubSeq(pi, 1, 4),
     middle_user_asset_root |-> SubSeq(pi, 5, 8),
     new_user_asset_root    |-> SubSeq(pi, 9, 12),
     diff_root              |-> SubSeq(pi, 13, 16),
     tx_hash                |-> SubSeq(pi, 21, 24)]

\* the fields appended in the order the struct declares them
encode_SenderFirst(r) ==
    r.sender_address \o r.old_user_asset_root \o r.middle_user_asset_root
        \o r.new_user_asset_root \o r.diff_root \o r.tx_hash

encode(r) ==
    r.old_user_asset_root \o r.middle_user_asset_root \o r.new_user_asset_root
        \o r.diff_root \o r.sender_address \o r.tx_hash

parse_merge_and_purge_public_inputs(public_inputs_t) ==
    [old_user_asset_root    |-> SubSeq(public_inputs_t, 1, 4),
     middle_user_asset_root |-> SubSeq(public_inputs_t, 5, 8),
     new_user_asset_root    |-> SubSeq(public_inputs_t, 9, 12),
     diff_root              |-> SubSeq(public_inputs_t, 13, 16),
     sender_address         |-> SubSeq(public_inputs_t, 17, 20),
     tx_hash                |-> SubSeq(public_inputs_t, 21, 24)]

\* the public-input records the transaction proofs of the model carry
TxRecords ==
    {[sender_address         |-> Digest(1),
      old_user_asset_root    |-> default_hash,
      middle_user_asset_root |-> m,
      new_user_asset_root    |-> n,
      diff_root              |-> d,
      tx_hash                |-> poseidon_two_to_one(d, default_hash)] :
        m \in Values, n \in Values, d \in Diffs}

\* RecursiveProofTarget: the inner proof's public inputs and the enabled flag
RecursiveProofs ==
    {[public_inputs |-> encode(r), enabled |-> e] :
        r \in TxRecords, e \in BOOLEAN}

\* ------------------------------------- sparse Merkle process proofs (SMT)
\* a zero new value classified as Update
RoleOf_NoRemove(old_value, new_value) ==
    IF old_value = new_value THEN "NoOp"
    ELSE IF old_value = default_hash THEN "Insert"
    ELSE IF new_value = default_hash THEN "Update"
    ELSE "Remove"

RoleOf(old_value, new_value) ==
    IF old_value = new_value THEN "NoOp"
    ELSE IF old_value = default_hash THEN "Insert"
    ELSE IF new_value = default_hash THEN "Remove"
    ELSE "Update"

\* the process proofs that satisfy the constraints of
\* SparseMerkleProcessProofTarget
\* the key of a process proof: the key argument of the mutation that made it
Keys == {Digest(a) : a \in 1..MaxAccount}

SmtProcessProofs ==
    {p \in [old_root : Roots, new_root : Roots, new_key : Keys,
            old_value : Values, new_value : Values,
            fnc : {"NoOp", "Insert", "Update", "Remove"}] :
        /\ p.fnc = RoleOf(p.old_value, p.new_value)
        /\ (p.fnc = "NoOp" => p.old_root = p.new_root)}

with_root(root) ==
    [old_root |-> root, new_root |-> root, new_key |-> default_hash,
     old_value |-> default_hash, new_value |-> default_hash, fnc |-> "NoOp"]

get_process_merkle_proof_role(fnc) ==
    [is_no_op     |-> fnc = "NoOp",
     is_not_no_op |-> fnc # "NoOp",
     is_insert_op |-> fnc = "Insert",
     is_update_op |-> fnc = "Update",
     is_remove_op |-> fnc = "Remove"]

enforce_equal_if_enabled(a, b, enabled) == enabled => a = b

logical_or(a, b) == a \/ b

\* ------------------------------- rollup/gadgets/proposal_block/mod.rs
\* loop 1, the constraint of one iteration
ChainConstraint_Unchecked(proof, running_root) == TRUE

ChainConstraint(proof, running_root) ==
    LET fnc == get_process_merkle_proof_role(proof.fnc)
    IN  enforce_equal_if_enabled(proof.old_root, running_root, fnc.is_not_no_op)

\* loop 2, the constraints of one iteration, one definition per constraint
NoOpOrEnabled_Dropped(w, u) == TRUE

NoOpOrEnabled(w, u) ==
    LET role == get_process_merkle_proof_role(w.fnc)
    IN  logical_or(role.is_no_op, u.enabled) = TRUE

\* reads slots [0..4) instead of [4..8)
OldValueBound_ReadsOld(w, u) ==
    LET public_inputs == parse_merge_and_purge_public_inputs(u.public_inputs)
        old_user_asset_root == public_inputs.old_user_asset_root
    IN  enforce_equal_if_enabled(old_user_asset_root, w.old_value, u.enabled)

\* not gated on the enabled flag
OldValueBound_Ungated(w, u) ==
    LET public_inputs == parse_merge_and_purge_public_inputs(u.public_inputs)
        old_user_asset_root == public_inputs.middle_user_asset_root
    IN  enforce_equal_if_enabled(old_user_asset_root, w.old_value, TRUE)

OldValueBound(w, u) ==
    LET public_inputs == parse_merge_and_purge_public_inputs(u.public_inputs)
        old_user_asset_root == public_inputs.middle_user_asset_root
    IN  enforce_equal_if_enabled(old_user_asset_root, w.old_value, u.enabled)

InsertForbidden_Dropped(w) == TRUE

InsertForbidden(w) ==
    get_process_merkle_proof_role(w.fnc).is_insert_op = FALSE

\* gated on the remove flag instead of the update flag
UpdateBound_WrongGate(w, u) ==
    LET public_inputs == parse_merge_and_purge_public_inputs(u.public_inputs)
        new_user_asset_root == public_inputs.new_user_asset_root
        role == get_process_merkle_proof_role(w.fnc)
        is_update_op_and_enabled == role.is_remove_op /\ u.enabled
    IN  enforce_equal_if_enabled(new_user_asset_root, w.new_value,
                                 is_update_op_and_enabled)

UpdateBound(w, u) ==
    LET public_inputs == parse_merge_and_purge_public_inputs(u.public_inputs)
        new_user_asset_root == public_inputs.new_user_asset_root
        role == get_process_merkle_proof_role(w.fnc)
        is_update_op_and_enabled == role.is_update_op /\ u.enabled
    IN  enforce_equal_if_enabled(new_user_asset_root, w.new_value,
                                 is_update_op_and_enabled)

RemoveBound(w, u) ==
    LET public_inputs == parse_merge_and_purge_public_inputs(u.public_inputs)
        new_user_asset_root == public_inputs.new_user_asset_root
        role == get_process_merkle_proof_role(w.fnc)
        is_remove_op_and_enabled == role.is_remove_op /\ u.enabled
    IN  enforce_equal_if_enabled(new_user_asset_root, default_hash,
                                 is_remove_op_and_enabled)

NoOpBound(w, u) ==
    LET public_inputs == parse_merge_and_purge_public_inputs(u.public_inputs)
        old_user_asset_root == public_inputs.middle_user_asset_root
        new_user_asset_root == public_inputs.new_user_asset_root
        role == get_process_merkle_proof_role(w.fnc)
        is_no_op_and_enabled == role.is_no_op /\ u.enabled
    IN  enforce_equal_if_enabled(new_user_asset_root, old_user_asset_root,
                                 is_no_op_and_enabled)

SlotConstraints(w, u) ==
    /\ NoOpOrEnabled(w, u)
    /\ OldValueBound(w, u)
    /\ InsertForbidden(w)
    /\ UpdateBound(w, u)
    /\ RemoveBound(w, u)
    /\ NoOpBound(w, u)

\* loop 3, the leaf one iteration pushes
\* pushes slots [8..12)
DiffLeaf_NewRoot(proof) ==
    parse_merge_and_purge_public_inputs(proof.public_inputs).new_user_asset_root

DiffLeaf(proof) ==
    parse_merge_and_purge_public_inputs(proof.public_inputs).diff_root

\* verify_valid_proposal_block as a function of the whole witness
\* the chain checked as in the code, the output taken from the first slot
ChainLoop_StaleRoot(proofs, j, acc) ==
    [ok   |-> acc.ok /\ \A i \in j..Len(proofs) :
                ChainConstraint(proofs[i],
                    IF i = j THEN acc.root ELSE proofs[i - 1].new_root),
     root |-> IF j > Len(proofs) THEN acc.root ELSE proofs[j].new_root]

RECURSIVE ChainLoop(_, _, _)
ChainLoop(proofs, j, acc) ==
    IF j > Len(proofs) THEN acc
    ELSE ChainLoop(proofs, j + 1,
            [ok   |-> acc.ok /\ ChainConstraint(proofs[j], acc.root),
             root |-> proofs[j].new_root])

verify_valid_proposal_block(proofs, txs, old_root) ==
    LET chain == ChainLoop(proofs, 1, [ok |-> TRUE, root |-> old_root])
        slots_ok == \A j \in 1..Len(proofs) : SlotConstraints(proofs[j], txs[j])
        leaves_t == [j \in 1..Len(txs) |-> DiffLeaf(txs[j])]
    IN  [satisfied            |-> chain.ok /\ slots_ok,
         block_tx_root        |-> get_merkle_root_target_from_leaves(leaves_t),
         new_world_state_root |-> chain.root]

\* ProposalBlockProofTarget::set_witness, the two halves of the witness
WitnessProofs_OldRoot(process_proofs, n) ==
    LET latest_root == process_proofs[Len(process_proofs)].old_root
        default_proof == with_root(latest_root)
    IN  [j \in 1..n |->
            IF j <= Len(process_proofs) THEN process_proofs[j]
            ELSE default_proof]

WitnessProofs(process_proofs, n) ==
    LET latest_root == process_proofs[Len(process_proofs)].new_root
        default_proof == with_root(latest_root)
    IN  [j \in 1..n |->
            IF j <= Len(process_proofs) THEN process_proofs[j]
            ELSE default_proof]

WitnessTxs(tx_proofs, n) ==
    [j \in 1..n |->
        IF j <= Len(tx_proofs)
        THEN [public_inputs |-> tx_proofs[j], enabled |-> TRUE]
        ELSE [public_inputs |-> tx_proofs[Len(tx_proofs)], enabled |-> FALSE]]

\* ------------------------------------------------- the world state tree
Addresses == {Digest(a) : a \in 1..MaxAccount}

RECURSIVE Pow(_, _)
Pow(b, e) == IF e = 0 THEN 1 ELSE b * Pow(b, e - 1)

Capacities == {Pow(2, e) : e \in 0..MaxLogTxs}

RECURSIVE TreeCode(_, _)
TreeCode(tree, a) ==
    IF a > MaxAccount THEN 0
    ELSE tree[Digest(a)][1] + (MaxValue + 1) * TreeCode(tree, a + 1)

\* the root commits to the whole tree; the empty tree has the zero root
get_root(tree) == Digest(TreeCode(tree, 1))

\* PoseidonSparseMerkleTree::set: the new tree and the process proof
tree_set(tree, key, value) ==
    LET new_tree == [tree EXCEPT ![key] = value]
    IN  [tree  |-> new_tree,
         proof |-> [old_root  |-> get_root(tree),
                    new_root  |-> get_root(new_tree),
                    new_key   |-> key,
                    old_value |-> tree[key],
                    new_value |-> value,
                    fnc       |-> RoleOf(tree[key], value)]]

\* ------------------------------------------------------------------- state
VARIABLES
    old_world_state_root,   \* input of the circuit
    slot,                   \* number of slots whose constraints are evaluated
    w,                      \* world_state_process_proofs[slot], as witnessed
    u,                      \* user_tx_proofs[slot], as witnessed
    new_world_state_root,   \* the running root of loop 1; output at the end
    leaves,                 \* the leaves of loop 3
    block_tx_root,          \* output
    satisfied,              \* every constraint evaluated so far holds
    pc,
    world_state_tree,       \* the world state tree of the block builder
    world_state_process_proofs, \* the process proofs of the mutations
    user_tx_proofs,         \* the transaction proofs, as public inputs
    n_txs,                  \* N_TXS of the circuit set_witness is called on
    call,                   \* the arguments of set_witness
    pw                      \* the witness set_witness writes

circuit_vars == <<slot, w, u, leaves>>

builder_vars == <<world_state_tree, world_state_process_proofs,
                  user_tx_proofs, n_txs, call, pw>>

block_vars == <<old_world_state_root, slot, w, u, new_world_state_root, leaves,
                block_tx_root, satisfied, pc, world_state_tree,
                world_state_process_proofs, user_tx_proofs, n_txs, call, pw>>

\* get_merkle_root_target_from_leaves, one call
VARIABLES
    input_leaves,           \* the argument leaves_t
    layer,                  \* the local variable layer
    root_t,                 \* the value returned
    mpc

leaf_vars == <<input_leaves, layer, root_t, mpc>>

\* MerkleProofTarget, one proof
VARIABLES
    n_levels,               \* N_LEVELS of the target
    tree_leaves,            \* the leaves the proof is made from
    merkle_proof,           \* the arguments of set_witness
    index_t,                \* target index, as witnessed
    value_t,                \* target value, as witnessed
    siblings_t,             \* target siblings, as witnessed
    merkle_root,            \* target root, as the circuit computes it
    returned_root,          \* the value set_witness returns
    range_ok,               \* the range check on index holds
    ppc

path_vars == <<n_levels, tree_leaves, merkle_proof, index_t, value_t,
               siblings_t, merkle_root, returned_root, range_ok, ppc>>

\* the Merge-and-Purge public inputs, from the circuit to the parser
VARIABLES
    tx_targets,             \* the values of the circuit's targets
    proof_public_inputs,    \* the public inputs of the proof
    proved_inputs,          \* the record prove returns
    encoded_inputs,         \* encode of that record
    parsed_inputs,          \* parse_merge_and_purge_public_inputs of it
    wpc

wire_vars == <<tx_targets, proof_public_inputs, proved_inputs, encoded_inputs,
               parsed_inputs, wpc>>

\* make_address_list, one call
VARIABLES
    sender_tx_proofs,       \* the argument user_tx_proofs
    received_signatures,    \* the argument received_signatures
    num_transactions,       \* the argument num_transactions
    address_list,           \* the local variable address_list
    apc

addr_vars == <<sender_tx_proofs, received_signatures, num_transactions,
               address_list, apc>>

\* MergeAndPurgeTransitionTarget, one transaction
VARIABLES
    tx_call,                \* the arguments of set_witness
    tx_pw,                  \* the values the witness gives the targets
    tx_result,              \* the record set_witness returns
    tx_ok,                  \* the constraints of the circuit hold
    tx_public_inputs,       \* the public inputs of the proof
    tpc

tx_vars == <<tx_call, tx_pw, tx_result, tx_ok, tx_public_inputs, tpc>>

gadget_vars == <<leaf_vars, path_vars, wire_vars, addr_vars, tx_vars>>

vars == <<block_vars, gadget_vars>>

LeavesIdle ==
    /\ input_leaves = <<>>
    /\ layer = <<>>
    /\ root_t = <<>>
    /\ mpc = "idle"

NoProof == [index |-> 0, value |-> default_hash, siblings |-> <<>>,
            root |-> Panic]

PathIdle ==
    /\ n_levels = 0
    /\ tree_leaves = <<>>
    /\ merkle_proof = NoProof
    /\ index_t = 0
    /\ value_t = default_hash
    /\ siblings_t = <<>>
    /\ merkle_root = Panic
    /\ returned_root = Panic
    /\ range_ok = TRUE
    /\ ppc = "idle"

WireIdle ==
    /\ tx_targets = <<>>
    /\ proof_public_inputs = <<>>
    /\ proved_inputs = <<>>
    /\ encoded_inputs = <<>>
    /\ parsed_inputs = <<>>
    /\ wpc = "idle"

AddrIdle ==
    /\ sender_tx_proofs = <<>>
    /\ received_signatures = <<>>
    /\ num_transactions = 0
    /\ address_list = <<>>
    /\ apc = "idle"

TxIdle ==
    /\ tx_call = <<>>
    /\ tx_pw = <<>>
    /\ tx_result = <<>>
    /\ tx_ok = TRUE
    /\ tx_public_inputs = <<>>
    /\ tpc = "idle"

GadgetsIdle == LeavesIdle /\ PathIdle /\ WireIdle /\ AddrIdle /\ TxIdle

leaf_frame == <<block_vars, path_vars, wire_vars, addr_vars, tx_vars>>

path_frame == <<block_vars, leaf_vars, wire_vars, addr_vars, tx_vars>>

wire_frame == <<block_vars, leaf_vars, path_vars, addr_vars, tx_vars>>

addr_frame == <<block_vars, leaf_vars, path_vars, wire_vars, tx_vars>>

tx_frame == <<block_vars, leaf_vars, path_vars, wire_vars, addr_vars>>

EmptyTree == [a \in Addresses |-> default_hash]

NoCall == [proofs |-> <<>>, txs |-> <<>>, root |-> default_hash]

EmptyWitness == [root |-> <<>>, proofs |-> <<>>, txs |-> <<>>]

NoTx == [public_inputs |-> <<>>, enabled |-> FALSE]

\* The circuit is built for N_TXS slots; nothing is witnessed yet.
Init ==
    /\ old_world_state_root \in Roots
    /\ slot = 0
    /\ w = with_root(old_world_state_root)
    /\ u = NoTx
    /\ new_world_state_root = old_world_state_root
    /\ leaves = <<>>
    /\ block_tx_root = Panic
    /\ satisfied = TRUE
    /\ pc = "chain"
    /\ world_state_tree = EmptyTree
    /\ world_state_process_proofs = <<>>
    /\ user_tx_proofs = <<>>
    /\ n_txs = N_TXS
    /\ call = NoCall
    /\ pw = EmptyWitness
    /\ GadgetsIdle

\* loop 1, iteration `slot`: the process proof of the slot is witnessed
ChainProof ==
    /\ pc = "chain"
    /\ slot < N_TXS
    /\ \E proof \in SmtProcessProofs :
        LET ok == ChainConstraint(proof, new_world_state_root)
        IN  /\ w' = proof
            /\ new_world_state_root' = proof.new_root
            /\ satisfied' = ok
            /\ pc' = IF ok THEN "check" ELSE "unsat_chain"
    /\ UNCHANGED <<old_world_state_root, slot, u, leaves, block_tx_root>>
    /\ UNCHANGED builder_vars
    /\ UNCHANGED gadget_vars

\* loop 2, iteration `slot`: the transaction proof of the slot is witnessed
CheckSlot ==
    /\ pc = "check"
    /\ \E proof \in RecursiveProofs :
        LET ok == SlotConstraints(w, proof)
        IN  /\ u' = proof
            /\ satisfied' = ok
            /\ pc' = IF ok THEN "push" ELSE "unsat_slot"
    /\ UNCHANGED <<old_world_state_root, slot, w, new_world_state_root,
                   leaves, block_tx_root>>
    /\ UNCHANGED builder_vars
    /\ UNCHANGED gadget_vars

\* loop 3, iteration `slot`
PushLeaf ==
    /\ pc = "push"
    /\ leaves' = Append(leaves, DiffLeaf(u))
    /\ slot' = slot + 1
    /\ pc' = IF slot + 1 = N_TXS THEN "root" ELSE "chain"
    /\ UNCHANGED <<old_world_state_root, w, u, new_world_state_root,
                   block_tx_root, satisfied>>
    /\ UNCHANGED builder_vars
    /\ UNCHANGED gadget_vars

\* after the loops: block_tx_root and the returned pair
BlockTxRoot ==
    /\ pc = "root"
    /\ block_tx_root' = get_merkle_root_target_from_leaves(leaves)
    /\ pc' = "done"
    /\ UNCHANGED <<old_world_state_root, slot, w, u, new_world_state_root,
                   leaves, satisfied>>
    /\ UNCHANGED builder_vars
    /\ UNCHANGED gadget_vars

Next == ChainProof \/ CheckSlot \/ PushLeaf \/ BlockTxRoot

Spec == Init /\ [][Next]_vars

\* --------------------------------------- building and proving one block
\* test_proposal_block: the world state tree holds the accounts' roots
InitWitness ==
    /\ world_state_tree \in [Addresses -> Values]
    /\ world_state_process_proofs = <<>>
    /\ user_tx_proofs = <<>>
    /\ n_txs \in Capacities
    /\ call = NoCall
    /\ pw = EmptyWitness
    /\ old_world_state_root = get_root(world_state_tree)
    /\ new_world_state_root = default_hash
    /\ block_tx_root = Panic
    /\ satisfied = TRUE
    /\ pc = "build"
    /\ slot = 0
    /\ w = with_root(default_hash)
    /\ u = NoTx
    /\ leaves = <<>>
    /\ GadgetsIdle

\* one account's transaction: its proof, and the mutation of the tree
Submit ==
    /\ pc = "build"
    /\ Len(world_state_process_proofs) < MaxReal
    /\ \E sender \in Addresses, new_root \in Values, diff \in Diffs :
        LET record == [sender_address         |-> sender,
                       old_user_asset_root    |-> world_state_tree[sender],
                       middle_user_asset_root |-> world_state_tree[sender],
                       new_user_asset_root    |-> new_root,
                       diff_root              |-> diff,
                       tx_hash |-> poseidon_two_to_one(diff, default_hash)]
            res == tree_set(world_state_tree, sender, new_root)
        IN  /\ world_state_tree' = res.tree
            /\ world_state_process_proofs' =
                    Append(world_state_process_proofs, res.proof)
            /\ user_tx_proofs' = Append(user_tx_proofs, encode(record))
    /\ UNCHANGED <<old_world_state_root, new_world_state_root, block_tx_root,
                   satisfied, pc, n_txs, call, pw>>
    /\ UNCHANGED circuit_vars
    /\ UNCHANGED gadget_vars

\* set_witness is called with the proofs made so far, or with one of the two
\* lists cut short; its first statement writes old_world_state_root
SetOldRoot ==
    /\ pc = "build"
    /\ \E k \in 0..Len(world_state_process_proofs),
          m \in 0..Len(user_tx_proofs) :
        /\ k = Len(world_state_process_proofs) \/ m = Len(user_tx_proofs)
        /\ call' = [proofs |-> SubSeq(world_state_process_proofs, 1, k),
                    txs    |-> SubSeq(user_tx_proofs, 1, m),
                    root   |-> old_world_state_root]
    /\ pw' = [pw EXCEPT !.root = call'.root]
    /\ pc' = "set_proofs"
    /\ UNCHANGED <<old_world_state_root, new_world_state_root, block_tx_root,
                   satisfied, world_state_tree, world_state_process_proofs,
                   user_tx_proofs, n_txs>>
    /\ UNCHANGED circuit_vars
    /\ UNCHANGED gadget_vars

\* the two assertions on the process proofs, then the slots 0 .. N_TXS-1
SetProcessProofs ==
    /\ pc = "set_proofs"
    /\ IF Len(call.proofs) # 0 /\ Len(call.proofs) <= n_txs
       THEN /\ pw' = [pw EXCEPT !.proofs = WitnessProofs(call.proofs, n_txs)]
            /\ pc' = "set_txs"
       ELSE /\ pc' = "panic"
            /\ pw' = pw
    /\ UNCHANGED <<old_world_state_root, new_world_state_root, block_tx_root,
                   satisfied, world_state_tree, world_state_process_proofs,
                   user_tx_proofs, n_txs, call>>
    /\ UNCHANGED circuit_vars
    /\ UNCHANGED gadget_vars

\* the two assertions on the transaction proofs, then the slots
SetTxProofs ==
    /\ pc = "set_txs"
    /\ IF Len(call.txs) # 0 /\ Len(call.txs) <= n_txs
       THEN /\ pw' = [pw EXCEPT !.txs = WitnessTxs(call.txs, n_txs)]
            /\ pc' = "assigned"
       ELSE /\ pc' = "panic"
            /\ pw' = pw
    /\ UNCHANGED <<old_world_state_root, new_world_state_root, block_tx_root,
                   satisfied, world_state_tree, world_state_process_proofs,
                   user_tx_proofs, n_txs, call>>
    /\ UNCHANGED circuit_vars
    /\ UNCHANGED gadget_vars

\* circuit_data.prove(pw): the constraints on the witness, and the outputs
Prove ==
    /\ pc = "assigned"
    /\ LET res == verify_valid_proposal_block(pw.proofs, pw.txs, pw.root)
       IN  /\ satisfied' = res.satisfied
           /\ block_tx_root' = res.block_tx_root
           /\ new_world_state_root' = res.new_world_state_root
    /\ pc' = "done"
    /\ UNCHANGED <<old_world_state_root, world_state_tree,
                   world_state_process_proofs, user_tx_proofs, n_txs, call, pw>>
    /\ UNCHANGED circuit_vars
    /\ UNCHANGED gadget_vars

NextWitness == Submit \/ SetOldRoot \/ SetProcessProofs \/ SetTxProofs \/ Prove

SpecWitness == InitWitness /\ [][NextWitness]_vars

\* ------------------------------ get_merkle_root_target_from_leaves, by steps
\* no block is being built or proved
BlockIdle ==
    /\ old_world_state_root = default_hash
    /\ slot = 0
    /\ w = with_root(default_hash)
    /\ u = NoTx
    /\ new_world_state_root = default_hash
    /\ leaves = <<>>
    /\ block_tx_root = Panic
    /\ satisfied = TRUE
    /\ pc = "idle"
    /\ world_state_tree = EmptyTree
    /\ world_state_process_proofs = <<>>
    /\ user_tx_proofs = <<>>
    /\ n_txs = N_TXS
    /\ call = NoCall
    /\ pw = EmptyWitness

LeafLists == UNION {[1..n -> Values] : n \in 0..MaxLeaves}

\* let mut layer = leaves_t;
InitLeaves ==
    /\ input_leaves \in LeafLists
    /\ layer = input_leaves
    /\ root_t = <<>>
    /\ mpc = "assert"
    /\ BlockIdle
    /\ TxIdle
    /\ PathIdle
    /\ WireIdle
    /\ AddrIdle

\* assert_ne!(layer.len(), 0);
AssertNonEmpty ==
    /\ mpc = "assert"
    /\ mpc' = IF Len(layer) = 0 THEN "panic" ELSE "while"
    /\ UNCHANGED <<input_leaves, layer, root_t>>
    /\ UNCHANGED leaf_frame

\* one iteration of the while loop
ReduceLayer ==
    /\ mpc = "while"
    /\ Len(layer) > 1
    /\ layer' = PairwiseHash(PushLastIfOdd(layer))
    /\ UNCHANGED <<input_leaves, root_t, mpc>>
    /\ UNCHANGED leaf_frame

\* layer[0]
ReturnRoot ==
    /\ mpc = "while"
    /\ ~(Len(layer) > 1)
    /\ root_t' = layer[1]
    /\ mpc' = "done"
    /\ UNCHANGED <<input_leaves, layer>>
    /\ UNCHANGED leaf_frame

NextLeaves == AssertNonEmpty \/ ReduceLayer \/ ReturnRoot

SpecLeaves == InitLeaves /\ [][NextLeaves]_vars

\* ------------------------------------------ MerkleProofTarget, one proof
\* test_verify_merkle_proof_by_plonky2: the target and the leaves
InitPath ==
    /\ n_levels \in 1..MaxLevels
    /\ tree_leaves = <<>>
    /\ merkle_proof = NoProof
    /\ index_t = 0
    /\ value_t = default_hash
    /\ siblings_t = <<>>
    /\ merkle_root = Panic
    /\ returned_root = Panic
    /\ range_ok = TRUE
    /\ ppc = "start"
    /\ BlockIdle
    /\ TxIdle
    /\ LeavesIdle
    /\ WireIdle
    /\ AddrIdle

\* the leaves, and get_merkle_proof(&leaves, index, N_LEVELS)
GetMerkleProof ==
    /\ ppc = "start"
    /\ \E n \in 1..Pow2(n_levels) :
        \E leaf_list \in [1..n -> Values], index \in 0..(n - 1) :
            /\ tree_leaves' = leaf_list
            /\ merkle_proof' = get_merkle_proof(leaf_list, index, n_levels)
    /\ ppc' = "proof"
    /\ UNCHANGED <<n_levels, index_t, value_t, siblings_t,
                   merkle_root, returned_root, range_ok>>
    /\ UNCHANGED path_frame

\* a caller with an index, a value and siblings of its own making
ArbitraryProof ==
    /\ ppc = "start"
    /\ \E index \in 0..(Pow2(n_levels) + 1), value \in Values,
          siblings \in [1..n_levels -> Values] :
        merkle_proof' = [index |-> index, value |-> value,
                         siblings |-> siblings, root |-> Panic]
    /\ ppc' = "proof"
    /\ UNCHANGED <<n_levels, tree_leaves, index_t, value_t, siblings_t,
                   merkle_root, returned_root, range_ok>>
    /\ UNCHANGED path_frame

\* MerkleProofTarget::set_witness
SetPathWitness ==
    /\ ppc = "proof"
    /\ index_t' = merkle_proof.index
    /\ value_t' = merkle_proof.value
    /\ siblings_t' = merkle_proof.siblings
    /\ returned_root' = get_merkle_root(merkle_proof.index, merkle_proof.value,
                                        merkle_proof.siblings)
    /\ ppc' = "assigned"
    /\ UNCHANGED <<n_levels, tree_leaves, merkle_proof, merkle_root, range_ok>>
    /\ UNCHANGED path_frame

\* data.prove(pw): the constraints of MerkleProofTarget::add_virtual_to
ProvePath ==
    /\ ppc = "assigned"
    /\ range_ok' = range_check(index_t, n_levels)
    /\ merkle_root' = get_merkle_root_target(index_t, value_t, siblings_t)
    /\ ppc' = "done"
    /\ UNCHANGED <<n_levels, tree_leaves, merkle_proof, index_t, value_t,
                   siblings_t, returned_root>>
    /\ UNCHANGED path_frame

NextPath == GetMerkleProof \/ ArbitraryProof \/ SetPathWitness \/ ProvePath

SpecPath == InitPath /\ [][NextPath]_vars

\* ------------------------- the Merge-and-Purge public inputs, end to end
Nonces == {Digest(v) : v \in 0..MaxRoot}

\* the values a satisfying witness gives the targets that are registered
InitWire ==
    /\ tx_targets \in
        {[merge_old_user_asset_root |-> o,
          merge_new_user_asset_root |-> m,
          purge_new_user_asset_root |-> n,
          purge_diff_root           |-> d,
          purge_sender_address      |-> a,
          tx_hash                   |-> poseidon_two_to_one(d, nonce)] :
            o \in Values, m \in Values, n \in Values, d \in Diffs,
            a \in Addresses, nonce \in Nonces}
    /\ proof_public_inputs = <<>>
    /\ proved_inputs = <<>>
    /\ encoded_inputs = <<>>
    /\ parsed_inputs = <<>>
    /\ wpc = "circuit"
    /\ BlockIdle
    /\ TxIdle
    /\ LeavesIdle
    /\ PathIdle
    /\ AddrIdle

\* self.data.prove(inputs): the proof carries the registered public inputs
ProveTransaction ==
    /\ wpc = "circuit"
    /\ proof_public_inputs' = register_public_inputs(tx_targets)
    /\ wpc' = "proved"
    /\ UNCHANGED <<tx_targets, proved_inputs, encoded_inputs, parsed_inputs>>
    /\ UNCHANGED wire_frame

\* MergeAndPurgeTransitionCircuit::prove: the record of the proof
DecodeProof ==
    /\ wpc = "proved"
    /\ proved_inputs' = prove_public_inputs(proof_public_inputs)
    /\ wpc' = "decoded"
    /\ UNCHANGED <<tx_targets, proof_public_inputs, encoded_inputs,
                   parsed_inputs>>
    /\ UNCHANGED wire_frame

\* ProofWithPublicInputs::from: the record encoded for the outer circuit
EncodeRecord ==
    /\ wpc = "decoded"
    /\ encoded_inputs' = encode(proved_inputs)
    /\ wpc' = "encoded"
    /\ UNCHANGED <<tx_targets, proof_public_inputs, proved_inputs,
                   parsed_inputs>>
    /\ UNCHANGED wire_frame

\* parse_merge_and_purge_public_inputs in the outer circuit
ParseInputs ==
    /\ wpc = "encoded"
    /\ parsed_inputs' = parse_merge_and_purge_public_inputs(encoded_inputs)
    /\ wpc' = "done"
    /\ UNCHANGED <<tx_targets, proof_public_inputs, proved_inputs,
                   encoded_inputs>>
    /\ UNCHANGED wire_frame

NextWire == ProveTransaction \/ DecodeProof \/ EncodeRecord \/ ParseInputs

SpecWire == InitWire /\ [][NextWire]_vars

\* ------------------------------------------------- rollup/address_list.rs
\* received_signature.is_some()
is_some(option) == option # "None"

\* every entry marked valid, signed or not
sender_with_validity_AlwaysValid(user_tx_proof, received_signature) ==
    [sender_address |-> user_tx_proof.public_inputs.sender_address,
     is_valid       |-> TRUE]

\* TransactionSenderWithValidity { sender_address, is_valid }
sender_with_validity(user_tx_proof, received_signature) ==
    [sender_address |-> user_tx_proof.public_inputs.sender_address,
     is_valid       |-> is_some(received_signature)]

\* Vec::resize: truncates a longer vector, pads a shorter one
resize(vec, new_len, filler) ==
    [i \in 1..new_len |-> IF i <= Len(vec) THEN vec[i] ELSE filler]

SenderProofs == {[public_inputs |-> [sender_address |-> a]] : a \in Addresses}

InitAddr ==
    /\ sender_tx_proofs \in UNION {[1..n -> SenderProofs] : n \in 0..MaxTxList}
    /\ received_signatures \in
            UNION {[1..n -> {"None", "Some"}] : n \in 0..MaxTxList}
    /\ num_transactions \in 0..MaxTxList
    /\ address_list = <<>>
    /\ apc = "zip"
    /\ BlockIdle
    /\ TxIdle
    /\ LeavesIdle
    /\ PathIdle
    /\ WireIdle

\* one iteration of the loop over zip_eq
PushAddress ==
    /\ apc = "zip"
    /\ Len(address_list) < Len(sender_tx_proofs)
    /\ Len(address_list) < Len(received_signatures)
    /\ address_list' = Append(address_list,
            sender_with_validity(sender_tx_proofs[Len(address_list) + 1],
                                 received_signatures[Len(address_list) + 1]))
    /\ UNCHANGED <<sender_tx_proofs, received_signatures, num_transactions, apc>>
    /\ UNCHANGED addr_frame

\* zip_eq at the end of an iterator: both must have ended
ZipEqEnd ==
    /\ apc = "zip"
    /\ \/ Len(address_list) = Len(sender_tx_proofs)
       \/ Len(address_list) = Len(received_signatures)
    /\ apc' = IF Len(sender_tx_proofs) = Len(received_signatures)
              THEN "resize" ELSE "panic"
    /\ UNCHANGED <<sender_tx_proofs, received_signatures, num_transactions,
                   address_list>>
    /\ UNCHANGED addr_frame

\* address_list.resize(num_transactions, (zero address, false))
ResizeList ==
    /\ apc = "resize"
    /\ address_list' = resize(address_list, num_transactions,
            [sender_address |-> default_hash, is_valid |-> FALSE])
    /\ apc' = "done"
    /\ UNCHANGED <<sender_tx_proofs, received_signatures, num_transactions>>
    /\ UNCHANGED addr_frame

NextAddr == PushAddress \/ ZipEqEnd \/ ResizeList

SpecAddr == InitAddr /\ [][NextAddr]_vars

\* ------------------------- MergeAndPurgeTransitionTarget, one transaction
\* MergeTransitionTarget::set_witness: the root after the merges, which
\* is the old root when there is no merge
merge_set_witness(merge_witnesses, old_user_asset_root) ==
    IF Len(merge_witnesses) = 0 THEN old_user_asset_root
    ELSE merge_witnesses[Len(merge_witnesses)]

\* the purge stage free to start from any root
MiddleConnected_Dropped(t) == TRUE

\* builder.connect_hashes(merge.new_user_asset_root, purge.old_user_asset_root)
MiddleConnected(t) ==
    t.merge_new_user_asset_root = t.purge_old_user_asset_root

\* MergeAndPurgeTransitionTarget::set_witness: the targets and the record
set_tx_witness(args) ==
    LET middle_user_asset_root ==
            merge_set_witness(args.merge_witnesses, args.old_user_asset_root)
        tx_hash == poseidon_two_to_one(args.diff_root, args.nonce)
    IN  [pw |-> [merge_old_user_asset_root |-> args.old_user_asset_root,
                 merge_new_user_asset_root |-> middle_user_asset_root,
                 purge_old_user_asset_root |-> middle_user_asset_root,
                 purge_new_user_asset_root |-> args.new_user_asset_root,
                 purge_diff_root           |-> args.diff_root,
                 purge_sender_address      |-> args.sender_address,
                 nonce                     |-> args.nonce],
         public_inputs |->
                [sender_address         |-> args.sender_address,
                 old_user_asset_root    |-> args.old_user_asset_root,
                 middle_user_asset_root |-> middle_user_asset_root,
                 new_user_asset_root    |-> args.new_user_asset_root,
                 diff_root              |-> args.diff_root,
                 tx_hash                |-> tx_hash]]

\* the arguments: the old root, the roots the merges lead to, and what the
\* purge witnesses make of the account
InitTx ==
    /\ tx_call \in
        [old_user_asset_root : Values,
         merge_witnesses : UNION {[1..n -> Values] : n \in 0..N_MERGES},
         new_user_asset_root : Values,
         diff_root : Diffs,
         sender_address : {Digest(1)},
         nonce : {default_hash}]
    /\ tx_pw = <<>>
    /\ tx_result = <<>>
    /\ tx_ok = TRUE
    /\ tx_public_inputs = <<>>
    /\ tpc = "call"
    /\ BlockIdle
    /\ LeavesIdle
    /\ PathIdle
    /\ WireIdle
    /\ AddrIdle

SetTxWitness ==
    /\ tpc = "call"
    /\ tx_pw' = set_tx_witness(tx_call).pw
    /\ tx_result' = set_tx_witness(tx_call).public_inputs
    /\ tpc' = "assigned"
    /\ UNCHANGED <<tx_call, tx_ok, tx_public_inputs>>
    /\ UNCHANGED tx_frame

\* a prover that gives the purge stage a root of its own
OverwritePurgeRoot ==
    /\ tpc = "assigned"
    /\ \E root \in Values :
        tx_pw' = [tx_pw EXCEPT !.purge_old_user_asset_root = root]
    /\ tpc' = "overwritten"
    /\ UNCHANGED <<tx_call, tx_result, tx_ok, tx_public_inputs>>
    /\ UNCHANGED tx_frame

\* data.prove(pw): the constraints of make_user_proof_circuit, the public
\* inputs as registered
ProveTxCircuit ==
    /\ tpc \in {"assigned", "overwritten"}
    /\ tx_ok' = MiddleConnected(tx_pw)
    /\ tx_public_inputs' = register_public_inputs(
            [merge_old_user_asset_root |-> tx_pw.merge_old_user_asset_root,
             merge_new_user_asset_root |-> tx_pw.merge_new_user_asset_root,
             purge_new_user_asset_root |-> tx_pw.purge_new_user_asset_root,
             purge_diff_root           |-> tx_pw.purge_diff_root,
             purge_sender_address      |-> tx_pw.purge_sender_address,
             tx_hash |-> poseidon_two_to_one(tx_pw.purge_diff_root,
                                             tx_pw.nonce)])
    /\ tpc' = IF tpc = "assigned" THEN "done" ELSE "done_overwritten"
    /\ UNCHANGED <<tx_call, tx_pw, tx_result>>
    /\ UNCHANGED tx_frame

NextTx == SetTxWitness \/ OverwritePurgeRoot \/ ProveTxCircuit

SpecTx == InitTx /\ [][NextTx]_vars

\* ------------------------------------------------------------ properties
\* w and u are the two proofs of one slot, and loop 2 has evaluated them
PairWitnessed == pc \in {"push", "unsat_slot"}

\* w and u are the two proofs of a slot all of whose constraints hold
SlotAccepted ==
    /\ satisfied
    /\ \/ pc = "push"
       \/ pc \in {"chain", "root", "done"} /\ slot >= 1

middle_of(proof) == SubSeq(proof.public_inputs, 5, 8)
new_of(proof) == SubSeq(proof.public_inputs, 9, 12)

\* C1: root chaining.  The running root starts at old_world_state_root; a
\* slot whose role is not NoOp is satisfiable exactly when its old_root is the
\* running root; the running root becomes the slot's new_root whatever the
\* role and changes nowhere else; the output new_world_state_root is the
\* running root after the last slot.
C1_RootChaining ==
    [][/\ (slot = 0 /\ pc = "chain")
            => new_world_state_root = old_world_state_root
       /\ (pc = "chain" /\ pc' # "chain")
            => /\ (w'.fnc # "NoOp" /\ w'.old_root # new_world_state_root)
                    => ~satisfied'
               /\ (w'.fnc = "NoOp" \/ w'.old_root = new_world_state_root)
                    => satisfied'
               /\ new_world_state_root' = w'.new_root
       /\ (pc # "chain") => new_world_state_root' = new_world_state_root
       /\ (pc' = "done") => new_world_state_root' = w'.new_root
      ]_vars

\* the second slot carries a non-NoOp proof that chains from the first
\* slot's new_root, which is not the block's old root
C1_Witness ==
    /\ slot = 1 /\ pc = "check" /\ satisfied
    /\ w.fnc # "NoOp"
    /\ w.old_root # old_world_state_root

\* C4: a slot whose transaction is disabled and whose process proof is not
\* NoOp is unsatisfiable; every accepted slot is NoOp or enabled.
C4_NoOpOrEnabled ==
    /\ (PairWitnessed /\ ~u.enabled /\ w.fnc # "NoOp") => ~satisfied
    /\ SlotAccepted => (w.fnc = "NoOp" \/ u.enabled)

C4_Witness ==
    pc = "unsat_slot" /\ ~u.enabled /\ w.fnc = "Update"

\* C5: a slot whose process proof has role Insert is unsatisfiable, with an
\* enabled and with a disabled transaction.
C5_InsertRejected ==
    (PairWitnessed /\ w.fnc = "Insert") => ~satisfied

\* an enabled Insert slot whose values agree with the transaction
C5_Witness ==
    /\ pc = "unsat_slot" /\ w.fnc = "Insert" /\ u.enabled
    /\ middle_of(u) = w.old_value /\ new_of(u) = w.new_value

\* C6: in an accepted enabled slot old_value is the transaction's
\* middle_user_asset_root (slots [4..8)), and on Update new_value is the
\* transaction's new_user_asset_root (slots [8..12)).
C6_ValueBinding ==
    (SlotAccepted /\ u.enabled)
        => /\ w.old_value = middle_of(u)
           /\ (w.fnc = "Update" => w.new_value = new_of(u))

C6_Witness ==
    pc = "push" /\ u.enabled /\ w.fnc = "Update" /\ slot = 1

C8_EnabledNoOp ==
    (SlotAccepted /\ u.enabled /\ w.fnc = "NoOp")
        => w.new_value = middle_of(u)

C8_Witness ==
    pc = "push" /\ u.enabled /\ w.fnc = "NoOp" /\ w.new_value # default_hash

\* C9: a slot with a disabled transaction and a NoOp process proof satisfies
\* the constraints of its iteration, whatever the transaction's public
\* inputs are.
C9_DisabledNoOpAccepted ==
    (PairWitnessed /\ ~u.enabled /\ w.fnc = "NoOp") => satisfied

\* the disabled transaction's roots have nothing to do with the NoOp proof
C9_Witness ==
    /\ pc = "push" /\ ~u.enabled /\ w.fnc = "NoOp"
    /\ middle_of(u) # w.old_value
    /\ new_of(u) # middle_of(u)

diff_of(public_inputs) == SubSeq(public_inputs, 13, 16)

\* the root of the perfect binary tree over a list of 2^k leaves
RECURSIVE PerfectRoot(_)
PerfectRoot(list) ==
    IF Len(list) = 1 THEN list[1]
    ELSE LET half == Len(list) \div 2
         IN  poseidon_two_to_one(PerfectRoot(SubSeq(list, 1, half)),
                                 PerfectRoot(SubSeq(list, half + 1, Len(list))))

\* the outputs of the block as the circuit state holds them
Outputs ==
    [satisfied            |-> satisfied,
     block_tx_root        |-> block_tx_root,
     new_world_state_root |-> new_world_state_root]

\* C2: padding neutrality.  With 2 real process proofs and 2 real transaction
\* proofs, the outputs of the capacity-4 block (slots 2 and 3 padded by
\* set_witness) are the outputs of the capacity-2 block over the same proofs.
C2_PaddingNeutrality ==
    (pc = "done" /\ n_txs = 4 /\ Len(call.proofs) = 2 /\ Len(call.txs) = 2)
        => LET small == verify_valid_proposal_block(
                            WitnessProofs(call.proofs, 2),
                            WitnessTxs(call.txs, 2), call.root)
           IN  /\ new_world_state_root = small.new_world_state_root
               /\ block_tx_root = small.block_tx_root

\* C3: a disabled slot has no effect.  Replacing the public inputs of the
\* transaction proof of a disabled slot changes neither the outputs nor
\* whether the block is accepted.
C3_DisabledSlotNoEffect ==
    (pc = "done")
        => \A j \in 1..n_txs :
            ~pw.txs[j].enabled
                => \A r \in TxRecords :
                    verify_valid_proposal_block(pw.proofs,
                        [pw.txs EXCEPT ![j].public_inputs = encode(r)],
                        pw.root) = Outputs

\* C10: block_tx_root is the Merkle root over the diff_root values (slots
\* [12..16) of the public inputs) of the N_TXS slots in slot order; for two
\* real transactions in a capacity-2 block it is compress(diff_1, diff_2).
C10_TransactionRoot ==
    (pc = "done")
        => /\ block_tx_root =
                PerfectRoot([j \in 1..n_txs |-> diff_of(pw.txs[j].public_inputs)])
           /\ (n_txs = 2 /\ Len(call.txs) = 2)
                => block_tx_root =
                    poseidon_two_to_one(diff_of(call.txs[1]), diff_of(call.txs[2]))

C10_Witness ==
    /\ pc = "done" /\ satisfied /\ n_txs = 2 /\ Len(call.txs) = 2
    /\ diff_of(call.txs[1]) # diff_of(call.txs[2])
    /\ block_tx_root # Panic

\* C11: end-to-end root agreement.  When every process proof made by the
\* mutations of the world state tree is supplied, in submission order, with
\* old_world_state_root the root before the first mutation, the accepted
\* block's new_world_state_root is the root of the tree after the last one.
C11_RootAgreement ==
    (pc = "done" /\ satisfied /\ call.proofs = world_state_process_proofs)
        => new_world_state_root = get_root(world_state_tree)

C11_Witness ==
    /\ pc = "done" /\ satisfied
    /\ call.proofs = world_state_process_proofs
    /\ Len(call.proofs) = 2
    /\ call.proofs[1].new_root # call.root
    /\ call.proofs[2].new_root # call.proofs[1].new_root

\* C12: a call of set_witness that is rejected (an empty list, or a list
\* longer than N_TXS) has written no witness value.
C12_RejectedBeforeAssignment ==
    pc = "panic" => pw = EmptyWitness

\* C13: set_witness with a number of process proofs different from the
\* number of transaction proofs fails; it never completes the witness.
C13_MismatchedLengthsFail ==
    pc \in {"assigned", "done"} => Len(call.proofs) = Len(call.txs)

\* C14: witness padding.  Slots below k hold the supplied process proofs,
\* the other slots a NoOp proof rooted at the last supplied new_root; slots
\* below m hold the supplied transaction proofs enabled, the other slots the
\* last supplied transaction proof disabled; the resulting
\* new_world_state_root is the last supplied proof's new_root.
C14_WitnessPadding ==
    (pc \in {"assigned", "done"})
        => LET k == Len(call.proofs)
               m == Len(call.txs)
               last == call.proofs[k].new_root
           IN  /\ k \in 1..n_txs /\ m \in 1..n_txs
               /\ Len(pw.proofs) = n_txs /\ Len(pw.txs) = n_txs
               /\ \A j \in 1..n_txs :
                    /\ j <= k => pw.proofs[j] = call.proofs[j]
                    /\ j > k => /\ pw.proofs[j].fnc = "NoOp"
                                /\ pw.proofs[j].old_root = last
                                /\ pw.proofs[j].new_root = last
                    /\ j <= m => /\ pw.txs[j].public_inputs = call.txs[j]
                                 /\ pw.txs[j].enabled
                    /\ j > m => /\ pw.txs[j].public_inputs = call.txs[m]
                                /\ ~pw.txs[j].enabled
               /\ pc = "done" => new_world_state_root = last

C14_Witness ==
    /\ pc = "done" /\ n_txs = 4
    /\ Len(call.proofs) = 2 /\ Len(call.txs) = 1
    /\ call.proofs[2].new_root # call.proofs[2].old_root
    /\ pw.proofs[4].old_root = call.proofs[2].new_root
    /\ ~pw.txs[2].enabled

\* the tree of the leaf-list root, top down: layer h + 1 has one node per
\* pair of layer h, the last node of an odd layer being paired with itself
RECURSIVE LayerSize(_, _)
LayerSize(n, h) == IF h = 0 THEN n ELSE (LayerSize(n, h - 1) + 1) \div 2

RECURSIVE Height(_)
Height(n) == IF n <= 1 THEN 0 ELSE 1 + Height((n + 1) \div 2)

RECURSIVE RefNode(_, _, _)
RefNode(list, h, i) ==
    IF h = 0 THEN list[i]
    ELSE LET size == LayerSize(Len(list), h - 1)
             right == IF 2 * i > size THEN 2 * i - 1 ELSE 2 * i
         IN  poseidon_two_to_one(RefNode(list, h - 1, 2 * i - 1),
                                 RefNode(list, h - 1, right))

RefLayer(list, h) ==
    [i \in 1..LayerSize(Len(list), h) |-> RefNode(list, h, i)]

\* C15: leaf-list root determinism.  The root built from an odd-length leaf
\* list (length 1 included) is the root built from the list with its last
\* element appended once more.
C15_OddListDeterminism ==
    (mpc = "done" /\ Len(input_leaves) % 2 = 1)
        => root_t = get_merkle_root_target_from_leaves(
                        Append(input_leaves, input_leaves[Len(input_leaves)]))

\* C16: leaf-list root construction.  An empty list is rejected; otherwise
\* the layer is replaced again and again by the compressions of its
\* consecutive pairs, an odd layer longer than 1 first getting a copy of its
\* last element, until one digest is left, which is returned; a single leaf
\* is returned unchanged.
C16_LeafListRoot ==
    /\ mpc = "panic" => input_leaves = <<>>
    /\ input_leaves = <<>> => mpc \in {"assert", "panic"}
    /\ mpc = "while"
        => \E h \in 0..Height(Len(input_leaves)) :
                layer = RefLayer(input_leaves, h)
    /\ mpc = "done"
        => /\ Len(layer) = 1
           /\ root_t = RefNode(input_leaves, Height(Len(input_leaves)), 1)
           /\ Len(input_leaves) = 1 => root_t = input_leaves[1]

C16_Witness ==
    /\ mpc = "done"
    /\ Len(input_leaves) = 5
    /\ input_leaves[5] # default_hash
    /\ input_leaves[4] # input_leaves[5]
    /\ root_t # input_leaves[1]

\* the path from the root down: the top sibling is placed by the top bit
RECURSIVE RefPath(_, _, _)
RefPath(index, value, siblings) ==
    IF Len(siblings) = 0 THEN value
    ELSE LET n == Len(siblings)
             below == RefPath(index % Pow2(n - 1), value,
                              SubSeq(siblings, 1, n - 1))
         IN  IF (index \div Pow2(n - 1)) % 2 = 1
             THEN poseidon_two_to_one(siblings[n], below)
             ELSE poseidon_two_to_one(below, siblings[n])

\* C17: Merkle path root.  For an index in [0, 2^N_LEVELS) the root folds
\* the siblings from leaf to root by the index bits, least significant
\* first, bit 1 placing the current node on the right; an index outside the
\* range fails the range check.
C17_MerklePathRoot ==
    (ppc = "done")
        => /\ range_ok <=> (index_t \in 0..(Pow2(n_levels) - 1))
           /\ range_ok => merkle_root = RefPath(index_t, value_t, siblings_t)

C17_Witness ==
    /\ ppc = "done" /\ range_ok
    /\ n_levels = 2 /\ index_t = 1
    /\ merkle_proof.root = Panic
    /\ siblings_t[1] # value_t
    /\ siblings_t[2] # siblings_t[1]

\* C18: Merkle round trip.  The proof built off circuit for position i of a
\* leaf list, assigned by set_witness with leaf i, makes the root of the
\* circuit the root computed from the leaf list, and set_witness returns
\* that root.
C18_MerkleRoundTrip ==
    (ppc = "done" /\ merkle_proof.root # Panic)
        => /\ range_ok
           /\ value_t = tree_leaves[index_t + 1]
           /\ merkle_root = merkle_proof.root
           /\ returned_root = merkle_proof.root
           /\ Len(tree_leaves) = Pow2(n_levels)
                => merkle_root = get_merkle_root_target_from_leaves(tree_leaves)

C18_Witness ==
    /\ ppc = "done" /\ merkle_proof.root # Panic
    /\ n_levels = 2 /\ Len(tree_leaves) = 4 /\ index_t = 2
    /\ tree_leaves[1] # tree_leaves[2]
    /\ tree_leaves[3] # tree_leaves[4]
    /\ merkle_root = merkle_proof.root

\* C19: public-input wire format.  The registration order of the circuit,
\* encode, parse_merge_and_purge_public_inputs and the decoding in prove use
\* one layout, [0..4) old, [4..8) middle, [8..12) new, [12..16) diff_root,
\* [16..20) sender_address, [20..24) tx_hash, so decoding the encoding of a
\* record returns the record field by field.
C19_WireFormat ==
    /\ wpc \in {"proved", "decoded", "encoded", "done"}
        => /\ Len(proof_public_inputs) = 24
           /\ SubSeq(proof_public_inputs, 1, 4) = tx_targets.merge_old_user_asset_root
           /\ SubSeq(proof_public_inputs, 5, 8) = tx_targets.merge_new_user_asset_root
           /\ SubSeq(proof_public_inputs, 9, 12) = tx_targets.purge_new_user_asset_root
           /\ SubSeq(proof_public_inputs, 13, 16) = tx_targets.purge_diff_root
           /\ SubSeq(proof_public_inputs, 17, 20) = tx_targets.purge_sender_address
           /\ SubSeq(proof_public_inputs, 21, 24) = tx_targets.tx_hash
    /\ wpc \in {"decoded", "encoded", "done"}
        => /\ proved_inputs.old_user_asset_root = tx_targets.merge_old_user_asset_root
           /\ proved_inputs.middle_user_asset_root = tx_targets.merge_new_user_asset_root
           /\ proved_inputs.new_user_asset_root = tx_targets.purge_new_user_asset_root
           /\ proved_inputs.diff_root = tx_targets.purge_diff_root
           /\ proved_inputs.sender_address = tx_targets.purge_sender_address
           /\ proved_inputs.tx_hash = tx_targets.tx_hash
    /\ wpc \in {"encoded", "done"} => encoded_inputs = proof_public_inputs
    /\ wpc = "done"
        => \A f \in DOMAIN proved_inputs : parsed_inputs[f] = proved_inputs[f]

C19_Witness ==
    /\ wpc = "done"
    /\ parsed_inputs.sender_address # parsed_inputs.old_user_asset_root
    /\ parsed_inputs.old_user_asset_root # parsed_inputs.middle_user_asset_root
    /\ parsed_inputs.middle_user_asset_root # parsed_inputs.new_user_asset_root
    /\ parsed_inputs.new_user_asset_root # parsed_inputs.diff_root
    /\ parsed_inputs.diff_root # parsed_inputs.sender_address
    /\ parsed_inputs.tx_hash = tx_targets.tx_hash

\* C20: address list.  For k <= num_transactions records and as many
\* optional signatures, make_address_list returns num_transactions entries:
\* entry i < k is (sender_address of record i, signature i is present), in
\* input order, and the entries from k on are (zero address, false).
C20_AddressList ==
    (apc = "done" /\ Len(sender_tx_proofs) <= num_transactions)
        => /\ Len(received_signatures) = Len(sender_tx_proofs)
           /\ Len(address_list) = num_transactions
           /\ \A i \in 1..num_transactions :
                IF i <= Len(sender_tx_proofs)
                THEN /\ address_list[i].sender_address =
                            sender_tx_proofs[i].public_inputs.sender_address
                     /\ address_list[i].is_valid =
                            (received_signatures[i] = "Some")
                ELSE /\ address_list[i].sender_address = default_hash
                     /\ address_list[i].is_valid = FALSE

C20_Witness ==
    /\ apc = "done"
    /\ Len(sender_tx_proofs) = 2 /\ num_transactions = 3
    /\ sender_tx_proofs[1] # sender_tx_proofs[2]
    /\ received_signatures = <<"None", "Some">>
    /\ Len(address_list) = 3

\* C25: make_address_list never drops a supplied slot.  Whatever the number
\* of supplied pairs, num_transactions exceeded or not, a returned list
\* holds every supplied pair i at index i.
C25_NoSuppliedSlotDropped ==
    (apc = "done")
        => \A i \in 1..Len(sender_tx_proofs) :
            /\ i <= Len(address_list)
            /\ address_list[i] =
                    sender_with_validity(sender_tx_proofs[i],
                                         received_signatures[i])

\* C22: contiguous root chain.  In an accepted block slot 0's old_root is
\* old_world_state_root and every slot's old_root is the previous slot's
\* new_root, the NoOp slots included, so that a block of NoOp slots leaves
\* the root where it was.
C22_ContiguousChain ==
    [][/\ (pc = "chain" /\ pc' = "check" /\ slot >= 1)
            => w'.old_root = new_world_state_root
       /\ (pc = "check" /\ pc' = "push" /\ slot = 0)
            => w.old_root = old_world_state_root
       /\ (pc = "check" /\ pc' = "push" /\ slot = 0 /\ w.fnc = "NoOp")
            => new_world_state_root = old_world_state_root
      ]_vars

C23_SenderBinding ==
    (pc = "push" /\ satisfied /\ u.enabled /\ w.fnc # "NoOp")
        => w.new_key =
            parse_merge_and_purge_public_inputs(u.public_inputs).sender_address

\* C21: merge-then-purge state machine.  The root the purge stage starts
\* from is the root the merge stage ends with, middle_user_asset_root at
\* public inputs [4..8), in the constraints of the circuit and in
\* set_witness, so the exposed roots form the chain old -> middle -> new.
C21_MergeThenPurge ==
    /\ tpc \in {"assigned", "done"}
        => /\ tx_pw.purge_old_user_asset_root = tx_pw.merge_new_user_asset_root
           /\ tx_result.middle_user_asset_root = tx_pw.purge_old_user_asset_root
           /\ tx_result.old_user_asset_root = tx_pw.merge_old_user_asset_root
           /\ tx_result.new_user_asset_root = tx_pw.purge_new_user_asset_root
    /\ tpc = "done" => tx_ok /\ tx_public_inputs = encode(tx_result)
    /\ (tpc \in {"done", "done_overwritten"} /\ tx_ok)
        => /\ SubSeq(tx_public_inputs, 1, 4) = tx_pw.merge_old_user_asset_root
           /\ SubSeq(tx_public_inputs, 5, 8) = tx_pw.purge_old_user_asset_root
           /\ SubSeq(tx_public_inputs, 9, 12) = tx_pw.purge_new_user_asset_root

C21_Witness ==
    /\ tpc = "done" /\ tx_ok
    /\ Len(tx_call.merge_witnesses) = 2
    /\ tx_result.middle_user_asset_root # tx_result.old_user_asset_root
    /\ tx_result.new_user_asset_root # tx_result.middle_user_asset_root
    /\ tx_call.merge_witnesses[1] # tx_call.merge_witnesses[2]

====
